---- MODULE Spec2Model ----
(***************************************************************************)
(* A model of the scanning core of rust-scan-util: the Cursor (scan        *)
(* position), the Tokenizer, Whitespace and CompareStrs policies, the      *)
(* ScanError merge and the primitive Scanner implementations.              *)
(*                                                                         *)
(* Representation.  A `char` is a name (a TLA+ string): an ASCII character *)
(* is named by itself, a non-ASCII code point by "U+XXXX".  A `&str` is a  *)
(* sequence of chars; Utf8 gives the bytes of a char, so byte lengths and  *)
(* byte offsets are those of the UTF-8 encoding.  `uint` is the pointer    *)
(* sized unsigned integer, modelled with UintBits bits and wrapping        *)
(* arithmetic.  Option<T> is <<>> (None) or <<v>> (Some(v)).  A panic of   *)
(* the program (slicing a string off a code-point boundary) is the tag     *)
(* "panic" of a result, after which the program is stopped.                *)
(***************************************************************************)
EXTENDS Integers, Sequences, FiniteSets, TLC

VARIABLES
    cursor,   \* the Cursor value the caller holds (or a placeholder outside the cursor specifications)
    call,     \* the last operation called and its arguments
    result    \* what that operation returned

vars == <<cursor, call, result>>

None == <<>>
Some(v) == <<v>>
is_some(o) == o # <<>>
unwrap(o) == o[1]

(***************************************************************************)
(* Bounds of the model.                                                    *)
(***************************************************************************)
\* Longest input (in code points) enumerated exhaustively over Alphabet.
MaxLen == 2
\* Width of uint in bits (the real width is that of a pointer).
UintBits == 4
\* Longest string (in code points) compared by the comparator specifications.
MaxCmpLen == 3
\* Longest text (in code points) given to the tokenizers.
MaxTokLen == 3
\* Longest text (in code points) enumerated for the mini-lexers and the
\* number scanners.
MaxLexLen == 3
\* Longest text (in code points) enumerated for the whitespace policies.
MaxWsLen == 3
\* Largest offset carried by a ScanError given to ScanError::or.
MaxErrOffset == 5
\* Largest in-range argument given to slice_from (besides the largest uint).
MaxFrom == 1

(***************************************************************************)
(* Characters.                                                             *)
(***************************************************************************)
AsciiLower == <<"a","b","c","d","e","f","g","h","i","j","k","l","m",
                "n","o","p","q","r","s","t","u","v","w","x","y","z">>
AsciiUpper == <<"A","B","C","D","E","F","G","H","I","J","K","L","M",
                "N","O","P","Q","R","S","T","U","V","W","X","Y","Z">>
AsciiDigit == <<"0","1","2","3","4","5","6","7","8","9">>

Range(f) == { f[i] : i \in DOMAIN f }
IndexOf(f, c) == CHOOSE i \in DOMAIN f : f[i] = c

AsciiLowerSet == Range(AsciiLower)
AsciiUpperSet == Range(AsciiUpper)
AsciiDigitSet == Range(AsciiDigit)

\* The other chars of the model: ASCII controls and punctuation, then
\* NO-BREAK SPACE, SECTION SIGN, LATIN CAPITAL / SMALL LETTER E WITH ACUTE,
\* ARABIC-INDIC DIGIT THREE, EM SPACE and KELVIN SIGN.
OtherChars == {"\t", "\n", "\r", " ", "+", "-", ".", "_",
               "U+00A0", "U+00A7", "U+00C9", "U+00E9", "U+0663", "U+2003", "U+212A"}

Chars == AsciiLowerSet \cup AsciiUpperSet \cup AsciiDigitSet \cup OtherChars

\* The UTF-8 encoding of each char (str::as_bytes on a one-char string).
Utf8Of ==
    [c \in Chars |->
        IF c \in AsciiLowerSet THEN << 96 + IndexOf(AsciiLower, c) >>
        ELSE IF c \in AsciiUpperSet THEN << 64 + IndexOf(AsciiUpper, c) >>
        ELSE IF c \in AsciiDigitSet THEN << 47 + IndexOf(AsciiDigit, c) >>
        ELSE CASE c = "\t" -> << 9 >>
               [] c = "\n" -> << 10 >>
               [] c = "\r" -> << 13 >>
               [] c = " " -> << 32 >>
               [] c = "+" -> << 43 >>
               [] c = "-" -> << 45 >>
               [] c = "." -> << 46 >>
               [] c = "_" -> << 95 >>
               [] c = "U+00A0" -> << 194, 160 >>
               [] c = "U+00A7" -> << 194, 167 >>
               [] c = "U+00C9" -> << 195, 137 >>
               [] c = "U+00E9" -> << 195, 169 >>
               [] c = "U+0663" -> << 217, 163 >>
               [] c = "U+2003" -> << 226, 128, 131 >>
               [] c = "U+212A" -> << 226, 132, 170 >>]

Utf8(c) == Utf8Of[c]

\* char::len_utf8
len_utf8(c) == Len(Utf8Of[c])

WhiteSpaceChars == {"\t", "\n", "\r", " ", "U+00A0", "U+2003"}
AlphabeticChars == AsciiLowerSet \cup AsciiUpperSet \cup {"U+00C9", "U+00E9", "U+212A"}
NumericChars == AsciiDigitSet \cup {"U+0663"}

\* char::is_whitespace (the White_Space property)
is_whitespace(c) == c \in WhiteSpaceChars

\* char::is_alphabetic (the Alphabetic property)
is_alphabetic(c) == c \in AlphabeticChars

\* char::is_digit as the tokenizers use it (the N* general categories)
is_digit(c) == c \in NumericChars

\* '0' <= c && c <= '9'
is_ascii_digit(c) == c \in AsciiDigitSet

\* char::is_XID_start
is_XID_start(c) == c \in AlphabeticChars

\* char::is_XID_continue
is_XID_continue(c) == c \in AlphabeticChars \/ c \in NumericChars \/ c = "_"

\* The one-code-point lowercase mapping of each char.
LowercaseOf ==
    [c \in Chars |->
        IF c \in AsciiUpperSet THEN AsciiLower[IndexOf(AsciiUpper, c)]
        ELSE CASE c = "U+00C9" -> "U+00E9"
               [] c = "U+212A" -> "k"
               [] OTHER -> c]

\* char::to_lowercase
to_lowercase(c) == LowercaseOf[c]

\* u8::to_ascii_lowercase, on one byte
to_ascii_lowercase(b) == IF 65 <= b /\ b <= 90 THEN b + 32 ELSE b

\* The value of each ASCII digit.
DigitValueOf == [c \in AsciiDigitSet |-> IndexOf(AsciiDigit, c) - 1]

(***************************************************************************)
(* Strings.                                                                *)
(***************************************************************************)
RECURSIVE as_bytes(_)
\* str::as_bytes: the UTF-8 bytes of a string
as_bytes(s) == IF s = <<>> THEN <<>> ELSE Utf8(Head(s)) \o as_bytes(Tail(s))

RECURSIVE len(_)
\* str::len: the length in bytes
len(s) == IF s = <<>> THEN 0 ELSE len_utf8(Head(s)) + len(Tail(s))

\* The byte offset at which the i-th char of s starts (i in 1..Len(s)+1).
byte_index(s, i) == len(SubSeq(s, 1, i - 1))

\* str::is_char_boundary
is_char_boundary(s, at) == \E i \in 1..(Len(s) + 1) : byte_index(s, i) = at

\* The number of chars that start before byte offset `at` (a boundary).
chars_before(s, at) == (CHOOSE i \in 1..(Len(s) + 1) : byte_index(s, i) = at) - 1

\* str::char_range_at(0).next: the byte offset after the first char
next_char_at0(s) == len_utf8(Head(s))

\* str::starts_with
starts_with(s, pat) == Len(s) >= Len(pat) /\ SubSeq(s, 1, Len(pat)) = pat

\* Iterator::take_while(pred).count() over the chars of s; the closure pred
\* is given as the set of the chars it accepts.
take_while_count(s, pred) ==
    CHOOSE k \in 0..Len(s) :
        /\ \A i \in 1..k : s[i] \in pred
        /\ (k = Len(s) \/ s[k + 1] \notin pred)

\* lib.rs len_while: the byte offset just past the last char of the leading
\* run of chars that satisfy pred, or None when the run is empty.
len_while(s, pred) ==
    LET n == take_while_count(s, pred)
    IN  IF n = 0 THEN None
        ELSE Some(byte_index(s, n) + len_utf8(s[n]))

\* Option::unwrap_or
unwrap_or(o, d) == IF is_some(o) THEN unwrap(o) ELSE d

\* The outcome of a computation that may panic.
Return(v) == [tag |-> "return", val |-> v]
Panic == [tag |-> "panic"]
panicked(r) == r.tag = "panic"

\* str::slice_to(end): panics when `end` is not a code-point boundary
slice_to(s, end) ==
    IF is_char_boundary(s, end) THEN Return(SubSeq(s, 1, chars_before(s, end)))
    ELSE Panic

\* str::slice_from(begin): panics when `begin` is not a code-point boundary
str_slice_from(s, begin) ==
    IF is_char_boundary(s, begin) THEN Return(SubSeq(s, chars_before(s, begin) + 1, Len(s)))
    ELSE Panic

(***************************************************************************)
(* whitespace.rs: the Whitespace policies.  strip_len gives a uint;        *)
(* token_len gives Return(Option<[end, tok]>) or panics.                       *)
(***************************************************************************)
is_newline(ch) == ch = "\r" \/ ch = "\n"

Ignore_strip_len(s) == unwrap_or(len_while(s, {ch \in Chars : is_whitespace(ch)}), 0)

\* The trait's default token_len, which Ignore keeps.
Whitespace_default_token_len(s) == Return(None)

\* A strip_len that strips one whitespace char only.
ExplicitNewline_strip_one(s) ==
    IF len(s) > 0 /\ is_whitespace(Head(s)) /\ ~is_newline(Head(s))
    THEN len_utf8(Head(s))
    ELSE 0

ExplicitNewline_strip_len(s) ==
    unwrap_or(len_while(s, {ch \in Chars : is_whitespace(ch) /\ ~is_newline(ch)}), 0)

\* A token_len that takes the first char only of a line terminator.
ExplicitNewline_token_len_one(s) ==
    IF starts_with(s, <<"\r">>) \/ starts_with(s, <<"\n">>)
    THEN Return(Some([end |-> 1, tok |-> <<"\n">>]))
    ELSE Return(None)

ExplicitNewline_token_len(s) ==
    IF starts_with(s, <<"\r", "\n">>) THEN Return(Some([end |-> 2, tok |-> <<"\n">>]))
    ELSE IF starts_with(s, <<"\r">>) \/ starts_with(s, <<"\n">>)
         THEN Return(Some([end |-> 1, tok |-> <<"\n">>]))
    ELSE Return(None)

whitespace_Explicit_strip_len(s) == 0

whitespace_Explicit_token_len(s) ==
    IF starts_with(s, <<"\r", "\n">>) THEN Return(Some([end |-> 2, tok |-> <<"\n">>]))
    ELSE IF starts_with(s, <<"\r">>) \/ starts_with(s, <<"\n">>)
         THEN Return(Some([end |-> 1, tok |-> <<"\n">>]))
    ELSE LET n == len_while(s, {ch \in Chars : is_whitespace(ch) /\ ~is_newline(ch)})
         IN  IF is_some(n) THEN Return(Some([end |-> unwrap(n), tok |-> <<" ">>]))
             ELSE Return(None)

ExplicitAny_strip_len(s) == 0

ExplicitAny_token_len(s) ==
    LET n == len_while(s, {ch \in Chars : is_whitespace(ch)})
    IN  IF is_some(n) THEN Return(Some([end |-> unwrap(n), tok |-> <<" ">>]))
        ELSE Return(None)

whitespace_Exact_strip_len(s) == 0

whitespace_Exact_token_len(s) ==
    IF len(s) = 0 \/ ~is_whitespace(Head(s)) THEN Return(None)
    ELSE IF starts_with(s, <<"\r", "\n">>)
         THEN LET t == slice_to(s, 2)
              IN  IF panicked(t) THEN Panic ELSE Return(Some([end |-> 2, tok |-> t.val]))
    ELSE LET t == slice_to(s, 1)
         IN  IF panicked(t) THEN Panic ELSE Return(Some([end |-> 1, tok |-> t.val]))

WhitespacePolicies == {"Ignore", "ExplicitNewline", "Explicit", "ExplicitAny", "Exact"}

\* Whitespace::strip_len, dispatched on the policy value
strip_len(sp, s) ==
    CASE sp = "Ignore" -> Ignore_strip_len(s)
      [] sp = "ExplicitNewline" -> ExplicitNewline_strip_len(s)
      [] sp = "Explicit" -> whitespace_Explicit_strip_len(s)
      [] sp = "ExplicitAny" -> ExplicitAny_strip_len(s)
      [] sp = "Exact" -> whitespace_Exact_strip_len(s)

\* Whitespace::token_len, dispatched on the policy value
Whitespace_token_len(sp, s) ==
    CASE sp = "Ignore" -> Whitespace_default_token_len(s)
      [] sp = "ExplicitNewline" -> ExplicitNewline_token_len(s)
      [] sp = "Explicit" -> whitespace_Explicit_token_len(s)
      [] sp = "ExplicitAny" -> ExplicitAny_token_len(s)
      [] sp = "Exact" -> whitespace_Exact_token_len(s)

(***************************************************************************)
(* tokenizer.rs: the Tokenizers.  token_len gives Option<uint>.            *)
(***************************************************************************)
\* A WordsAndInts whose words and integers are one class of token.
WordsAndInts_token_len_mixed(s) ==
    IF len(s) = 0 THEN None
    ELSE LET ch0 == Head(s)
         IN  IF is_alphabetic(ch0) \/ is_digit(ch0)
             THEN len_while(s, {ch \in Chars : is_alphabetic(ch) \/ is_digit(ch)})
             ELSE None

WordsAndInts_token_len(s) ==
    IF len(s) = 0 THEN None
    ELSE LET ch0 == Head(s)
         IN  IF is_alphabetic(ch0) THEN len_while(s, {ch \in Chars : is_alphabetic(ch)})
             ELSE IF is_digit(ch0) THEN len_while(s, {ch \in Chars : is_digit(ch)})
             ELSE None

IdentsAndInts_token_len(s) ==
    IF len(s) = 0 THEN None
    ELSE LET ch0 == Head(s)
         IN  IF ch0 = "_" \/ is_XID_start(ch0)
             THEN len_while(s, {ch \in Chars : is_XID_continue(ch)})
             ELSE IF is_digit(ch0) THEN len_while(s, {ch \in Chars : is_digit(ch)})
             ELSE None

SpaceDelimited_token_len(s) ==
    IF len(s) = 0 THEN None
    ELSE len_while(s, {ch \in Chars : ~is_whitespace(ch)})

tokenizer_Explicit_token_len(s) ==
    IF len(s) = 0 THEN None
    ELSE Some(len(s))

Tokenizers == {"WordsAndInts", "IdentsAndInts", "SpaceDelimited", "Explicit"}

\* Tokenizer::token_len, dispatched on the policy value
Tokenizer_token_len(tc, s) ==
    CASE tc = "WordsAndInts" -> WordsAndInts_token_len(s)
      [] tc = "IdentsAndInts" -> IdentsAndInts_token_len(s)
      [] tc = "SpaceDelimited" -> SpaceDelimited_token_len(s)
      [] tc = "Explicit" -> tokenizer_Explicit_token_len(s)

(***************************************************************************)
(* compare_strs.rs: the string comparators.                                *)
(***************************************************************************)
compare_strs_Exact(a, b) == a = b

\* str::eq_ignore_ascii_case: byte by byte
AsciiCaseInsensitive_compare_strs(a, b) ==
    LET ba == as_bytes(a)
        bb == as_bytes(b)
    IN  /\ Len(ba) = Len(bb)
        /\ \A i \in 1..Len(ba) : to_ascii_lowercase(ba[i]) = to_ascii_lowercase(bb[i])

Min(x, y) == IF x <= y THEN x ELSE y

\* a.len() != b.len() compares byte lengths; zip stops at the shorter string.
CaseInsensitive_compare_strs(a, b) ==
    IF len(a) # len(b) THEN FALSE
    ELSE \A i \in 1..Min(Len(a), Len(b)) : to_lowercase(a[i]) = to_lowercase(b[i])

Comparators == {"Exact", "AsciiCaseInsensitive", "CaseInsensitive"}

\* CompareStrs::compare_strs, dispatched on the policy value
CompareStrs_compare_strs(cs, a, b) ==
    CASE cs = "Exact" -> compare_strs_Exact(a, b)
      [] cs = "AsciiCaseInsensitive" -> AsciiCaseInsensitive_compare_strs(a, b)
      [] cs = "CaseInsensitive" -> CaseInsensitive_compare_strs(a, b)

(***************************************************************************)
(* scan_error.rs: ScanError.  The message of an OtherScanError is kept as  *)
(* its parts: what was expected and the token that was got (None: end of   *)
(* input).                                                                 *)
(***************************************************************************)
OtherScanError(msg, at) == [kind |-> "OtherScanError", msg |-> msg, offset |-> at]
ScanIoError(ioerr) == [kind |-> "ScanIoError", ioerr |-> ioerr]

\* An or that keeps the first error when the offsets are equal.
ScanError_or_first_on_tie(self, other) ==
    IF self.kind = "ScanIoError" THEN ScanIoError(self.ioerr)
    ELSE IF other.kind = "ScanIoError" THEN ScanIoError(other.ioerr)
    ELSE IF self.offset >= other.offset THEN OtherScanError(self.msg, self.offset)
    ELSE OtherScanError(other.msg, other.offset)

\* ScanError::or
ScanError_or(self, other) ==
    IF self.kind = "ScanIoError" THEN ScanIoError(self.ioerr)
    ELSE IF other.kind = "ScanIoError" THEN ScanIoError(other.ioerr)
    ELSE IF self.offset > other.offset THEN OtherScanError(self.msg, self.offset)
    ELSE OtherScanError(other.msg, other.offset)

\* Result<T, ScanError>
Ok(v) == [variant |-> "Ok", v |-> v]
Err(e) == [variant |-> "Err", e |-> e]
is_ok(r) == r.variant = "Ok"
is_err(r) == r.variant = "Err"

(***************************************************************************)
(* cursor.rs: Cursor and the ScanCursor trait.  Every operation gives      *)
(* Return(value) or Panic.                                                 *)
(***************************************************************************)
UintModulus == 2 ^ UintBits

\* uint addition, which wraps
uint_add(a, b) == (a + b) % UintModulus

\* Cursor::new
new(s, tc, sp, cs) == [slice |-> s, offset |-> 0, tc |-> tc, sp |-> sp, cs |-> cs]

\* Cursor::consumed
consumed(self) == self.offset

\* A slice_from that builds its successor with the default comparator, not
\* the comparator of self.
slice_from_default_cs(self, from) ==
    [self EXCEPT !.offset = Min(len(self.slice), uint_add(self.offset, from)),
                 !.cs = "Exact"]

\* Cursor::slice_from
slice_from(self, from) ==
    [self EXCEPT !.offset = Min(len(self.slice), uint_add(self.offset, from))]

\* Cursor::tail_str
tail_str(self) == str_slice_from(self.slice, self.offset)

\* Cursor::str_slice_to
str_slice_to(self, to) ==
    LET t == tail_str(self)
    IN  IF panicked(t) THEN Panic ELSE slice_to(t.val, to)

\* Cursor::str_slice_to_cur
str_slice_to_cur(self, to) ==
    IF /\ self.offset <= to.offset
       /\ is_char_boundary(self.slice, self.offset)
       /\ is_char_boundary(self.slice, to.offset)
    THEN Return(SubSeq(self.slice, chars_before(self.slice, self.offset) + 1,
                       chars_before(self.slice, to.offset)))
    ELSE Panic

\* Cursor::is_empty
is_empty(self) == self.offset = len(self.slice)

\* Cursor::compare_strs
compare_strs(self, a, b) == CompareStrs_compare_strs(self.cs, a, b)

\* Cursor::pop_ws
pop_ws(self) ==
    LET t == tail_str(self)
    IN  IF panicked(t) THEN Panic
        ELSE Return(slice_from(self, strip_len(self.sp, t.val)))

\* Cursor::pop_token: Some((cur.str_slice_to(end), cur.slice_from(end)))
pop_token_some(cur, end) ==
    LET tok == str_slice_to(cur, end)
    IN  IF panicked(tok) THEN Panic
        ELSE Return(Some([tok |-> tok.val, cur |-> slice_from(cur, end)]))

\* A variant of the match on self.tc.token_len(tail_str) without the
\* single-char token: no token when the tokenizer finds none.
pop_token_tc_match_no_default(cur, tail, n) ==
    IF is_some(n) THEN pop_token_some(cur, unwrap(n))
    ELSE Return(None)

\* Cursor::pop_token: the arms of the match on self.tc.token_len(tail_str),
\* whose value is n
pop_token_tc_match(cur, tail, n) ==
    IF is_some(n) THEN pop_token_some(cur, unwrap(n))
    ELSE IF is_empty(cur) THEN Return(None)
    ELSE pop_token_some(cur, next_char_at0(tail))

\* Cursor::pop_token, after the whitespace token was found absent
pop_token_tc(self, cur, tail) ==
    pop_token_tc_match(cur, tail, Tokenizer_token_len(self.tc, tail))

\* Cursor::pop_token: the arms of the match on
\* self.sp.token_len(cur.tail_str()), whose outcome is w
pop_token_sp_match(self, cur, tail, w) ==
    IF panicked(w) THEN Panic
    ELSE IF is_some(w.val)
         THEN Return(Some([tok |-> unwrap(w.val).tok,
                           cur |-> slice_from(cur, unwrap(w.val).end)]))
    ELSE pop_token_tc(self, cur, tail)

\* Cursor::pop_token, from the outcome c of self.pop_ws() on
pop_token_after_ws(self, c) ==
    IF panicked(c) THEN Panic
    ELSE IF panicked(tail_str(c.val)) THEN Panic
    ELSE pop_token_sp_match(self, c.val, tail_str(c.val).val,
                            Whitespace_token_len(self.sp, tail_str(c.val).val))

\* A pop_token that asks the tokenizer before the whitespace policy.
pop_token_tokenizer_first(self) ==
    LET c == pop_ws(self)
    IN  IF panicked(c) THEN Panic
        ELSE LET cur == c.val
                 tail == tail_str(cur)
             IN  IF panicked(tail) THEN Panic
                 ELSE IF is_some(Tokenizer_token_len(self.tc, tail.val))
                      THEN pop_token_tc(self, cur, tail.val)
                 ELSE pop_token_after_ws(self, c)

\* Cursor::pop_token: Return(Option<[tok, cur]>) or Panic
pop_token(self) == pop_token_after_ws(self, pop_ws(self))

\* The token a message reports: Some(got) or None (end of input).
got_of(p) == IF is_some(p) THEN Some(unwrap(p).tok) ELSE None

\* The error that expected and expected_one_of build, from what was
\* expected and the outcome p of self.pop_token()
expected_got(self, what, p) ==
    IF panicked(p) THEN Panic
    ELSE Return(OtherScanError([expected |-> what, got |-> got_of(p.val)],
                               consumed(self)))

\* ScanCursor::expected
expected(self, desc) == expected_got(self, [desc |-> desc], pop_token(self))

\* ScanCursor::expected_one_of
expected_one_of(self, toks) == expected_got(self, [toks |-> toks], pop_token(self))

\* ScanCursor::expected_tok
expected_tok(self, tok) == expected_one_of(self, <<tok>>)

\* ScanCursor::expected_eof
expected_eof(self) == expected_one_of(self, <<>>)

\* Err(e) of an error constructor that may panic
err_of(e) == IF panicked(e) THEN Panic ELSE Return(Err(e.val))

\* An expect_tok that accepts whatever token comes next.
expect_tok_any(self, s) ==
    LET p == pop_token(self)
    IN  IF panicked(p) THEN Panic
        ELSE IF is_some(p.val) THEN Return(Ok(unwrap(p.val).cur))
        ELSE err_of(expected_tok(self, s))

\* An expect_tok that gives back the cursor after the whitespace, not the
\* cursor after the token.
expect_tok_before_token(self, s) ==
    LET p == pop_token(self)
    IN  IF panicked(p) THEN Panic
        ELSE IF is_some(p.val) /\ compare_strs(self, s, unwrap(p.val).tok)
             THEN Return(Ok(pop_ws(self).val))
        ELSE err_of(expected_tok(self, s))

\* Cursor::expect_tok: the arms of the match on self.pop_token(), whose
\* outcome is p
expect_tok_match(self, s, p) ==
    IF panicked(p) THEN Panic
    ELSE IF is_some(p.val) /\ compare_strs(self, s, unwrap(p.val).tok)
         THEN Return(Ok(unwrap(p.val).cur))
    ELSE err_of(expected_tok(self, s))

\* Cursor::expect_tok
expect_tok(self, s) == expect_tok_match(self, s, pop_token(self))

\* ScanCursor::expect_eof: the branches on self.pop_token(), whose outcome
\* is p
expect_eof_match(self, p) ==
    IF panicked(p) THEN Panic
    ELSE IF is_some(p.val) THEN err_of(expected_eof(self))
    ELSE Return(Ok(<<>>))

\* ScanCursor::expect_eof
expect_eof(self) == expect_eof_match(self, pop_token(self))

(***************************************************************************)
(* scanner.rs: the mini-lexers.                                            *)
(***************************************************************************)
RECURSIVE scan_float_loop(_, _, _)
\* The loop of scan_float from the k-th char on, in state `state`.
scan_float_loop(s, k, state) ==
    IF k > Len(s) THEN Some(len(s))
    ELSE LET c == s[k]
             i == byte_index(s, k)
         IN  CASE state = "Start" ->
                    IF is_ascii_digit(c) \/ c = "-" THEN scan_float_loop(s, k + 1, "Whole")
                    ELSE None
               [] state = "Whole" ->
                    IF is_ascii_digit(c) THEN scan_float_loop(s, k + 1, "Whole")
                    ELSE IF c = "." THEN scan_float_loop(s, k + 1, "Suffix")
                    ELSE IF c = "e" \/ c = "E" THEN scan_float_loop(s, k + 1, "ExponentStart")
                    ELSE Some(i)
               [] state = "Suffix" ->
                    IF is_ascii_digit(c) THEN scan_float_loop(s, k + 1, "Suffix")
                    ELSE IF c = "e" \/ c = "E" THEN scan_float_loop(s, k + 1, "ExponentStart")
                    ELSE Some(i)
               [] state = "ExponentStart" ->
                    IF c = "+" \/ c = "-" \/ is_ascii_digit(c)
                    THEN scan_float_loop(s, k + 1, "Exponent")
                    ELSE Some(i)
               [] state = "Exponent" ->
                    IF is_ascii_digit(c) THEN scan_float_loop(s, k + 1, "Exponent")
                    ELSE Some(i)

\* A variant of scan_float that knows no exponent: it matches the sign or
\* first digit and the digits and points after it.
scan_float_mantissa_only(s) ==
    IF s = <<>> \/ ~(is_ascii_digit(Head(s)) \/ Head(s) = "-") THEN None
    ELSE Some(1 + take_while_count(Tail(s), AsciiDigitSet \cup {"."}))

\* scan_float
scan_float(s) == scan_float_loop(s, 1, "Start")

\* scan_uint
scan_uint(s) ==
    LET n == take_while_count(s, {c \in Chars : is_ascii_digit(c)})
    IN  IF n = 0 THEN None
        ELSE Some(byte_index(s, n) + len_utf8(s[n]))

\* A variant of scan_int that takes no sign.
scan_int_unsigned(s) == scan_uint(s)

\* scan_int
scan_int(s) ==
    IF len(s) = 0 THEN None
    ELSE LET neg == Head(s) = "-"
             rest == IF neg THEN Tail(s) ELSE s
             off == IF neg THEN 1 ELSE 0
             end == scan_uint(rest)
         IN  IF is_some(end) THEN Some(unwrap(end) + off) ELSE None

(***************************************************************************)
(* The target types' own parsers (FromStr), which s.parse() calls.         *)
(***************************************************************************)
IntTypes == {"i8", "i16", "i32", "u8", "u16"}
FloatTypes == {"f64"}

min_value(T) ==
    CASE T = "i8" -> -128
      [] T = "i16" -> -32768
      [] T = "i32" -> -2147483647 - 1
      [] T \in {"u8", "u16"} -> 0

\* A variant of max_value that gives every type the greatest i32.
max_value_i32(T) == 2147483647

max_value(T) ==
    CASE T = "i8" -> 127
      [] T = "i16" -> 32767
      [] T = "i32" -> 2147483647
      [] T = "u8" -> 255
      [] T = "u16" -> 65535

is_signed(T) == T \in {"i8", "i16", "i32"}

\* char::to_digit(10)
to_digit(c) == IF is_ascii_digit(c) THEN Some(DigitValueOf[c]) ELSE None

RECURSIVE accumulate(_, _, _, _)
\* The digit loop of from_str_radix: checked_mul by 10, then checked_add
\* (or checked_sub, for a negative number) of each digit.  The product of a
\* negative acc overflows when acc * 10 < min_value, which is
\* acc < -(max_value \div 10) as -min_value = max_value + 1 is no multiple
\* of 10.
accumulate(T, s, acc, negative) ==
    IF s = <<>> THEN Some(acc)
    ELSE LET d == to_digit(Head(s))
         IN  IF ~is_some(d) THEN None
             ELSE IF negative
                  THEN IF acc < -(max_value(T) \div 10) THEN None
                       ELSE IF acc * 10 < min_value(T) + unwrap(d) THEN None
                       ELSE accumulate(T, Tail(s), acc * 10 - unwrap(d), negative)
             ELSE IF acc > max_value(T) \div 10 THEN None
                  ELSE IF acc * 10 > max_value(T) - unwrap(d) THEN None
                  ELSE accumulate(T, Tail(s), acc * 10 + unwrap(d), negative)

\* <integer as FromStr>::from_str: Option<value>
parse_int(T, s) ==
    IF s = <<>> THEN None
    ELSE IF is_signed(T) /\ Head(s) = "-"
         THEN IF Tail(s) = <<>> THEN None ELSE accumulate(T, Tail(s), 0, TRUE)
    ELSE accumulate(T, s, 0, FALSE)

\* The leading run of ASCII digits of s.
digits_prefix(s) == SubSeq(s, 1, take_while_count(s, {c \in Chars : is_ascii_digit(c)}))

\* <float as FromStr>::from_str: Option<value>.  The value is kept as the
\* parts of the literal: sign, whole digits, fraction digits and exponent.
parse_float(T, s) ==
    IF s = <<>> \/ s = <<"-">> THEN None
    ELSE LET negative == Head(s) = "-"
             src == IF negative THEN Tail(s) ELSE s
             whole == digits_prefix(src)
             r1 == SubSeq(src, Len(whole) + 1, Len(src))
             has_point == r1 # <<>> /\ Head(r1) = "."
             r2 == IF has_point THEN Tail(r1) ELSE r1
             fraction == IF has_point THEN digits_prefix(r2) ELSE <<>>
             r3 == SubSeq(r2, Len(fraction) + 1, Len(r2))
             has_exp == r3 # <<>> /\ Head(r3) \in {"e", "E"}
             r4 == IF has_exp THEN Tail(r3) ELSE r3
             exp_neg == r4 # <<>> /\ Head(r4) = "-"
             exp_src == IF r4 # <<>> /\ Head(r4) \in {"+", "-"} THEN Tail(r4) ELSE r4
             exp == accumulate("u16", exp_src, 0, FALSE)
         IN  IF ~has_exp
             THEN IF r3 # <<>> THEN None
                  ELSE Some([negative |-> negative, whole |-> whole, fraction |-> fraction,
                             exponent |-> 0])
             ELSE IF exp_src = <<>> \/ ~is_some(exp) THEN None
             ELSE Some([negative |-> negative, whole |-> whole, fraction |-> fraction,
                        exponent |-> IF exp_neg THEN -unwrap(exp) ELSE unwrap(exp)])

\* str::parse::<T>
parse(T, s) == IF T \in FloatTypes THEN parse_float(T, s) ELSE parse_int(T, s)

(***************************************************************************)
(* scanner.rs: the Scanner implementations.  Each gives                    *)
(* Return(Ok([value, cur])), Return(Err(error)) or Panic.                  *)
(***************************************************************************)
str_true == <<"t", "r", "u", "e">>
str_false == <<"f", "a", "l", "s", "e">>

\* Result::map(|c| (value, c)) on the outcome r of an expect_tok
map_value(r, value) ==
    IF panicked(r) THEN Panic
    ELSE IF is_ok(r.val) THEN Return(Ok([value |-> value, cur |-> r.val.v]))
    ELSE r

\* Result::or_else(|_| otherwise)
or_else(r, otherwise) ==
    IF panicked(r) THEN Panic
    ELSE IF is_ok(r.val) THEN r
    ELSE otherwise

\* A bool scanner that tries the literal "true" only.
scan_bool_true_only(cursor_) ==
    or_else(map_value(expect_tok(cursor_, str_true), TRUE),
            err_of(expected(cursor_, "'true' or 'false'")))

\* impl Scanner for bool (the description names the two literals, which the
\* source quotes with backticks)
scan_bool(cursor_) ==
    or_else(or_else(map_value(expect_tok(cursor_, str_true), TRUE),
                    map_value(expect_tok(cursor_, str_false), FALSE)),
            err_of(expected(cursor_, "'true' or 'false'")))

\* impl Scanner for char
scan_char(cursor_) ==
    LET s == tail_str(cursor_)
    IN  IF panicked(s) THEN Panic
        ELSE IF len(s.val) = 0 THEN err_of(expected(cursor_, "character"))
        ELSE Return(Ok([value |-> Head(s.val),
                        cur |-> slice_from(cursor_, next_char_at0(s.val))]))

\* impl Scanner for &str: map and unwrap_or_else on the outcome p of
\* cursor.pop_token()
scan_str_map(cursor_, p) ==
    IF panicked(p) THEN Panic
    ELSE IF is_some(p.val)
         THEN Return(Ok([value |-> unwrap(p.val).tok, cur |-> unwrap(p.val).cur]))
    ELSE err_of(expected(cursor_, "any token"))

\* impl Scanner for &str, and for String (which only copies the token)
scan_str(cursor_) == scan_str_map(cursor_, pop_token(cursor_))

\* impl Scanner for ()
scan_unit(cursor_) == Return(Ok([value |-> <<>>, cur |-> cursor_]))

\* The scan_fn and the name each from_str_slice_scanner! invocation passes.
scan_fn(T, s) ==
    IF T \in FloatTypes THEN scan_float(s)
    ELSE IF is_signed(T) THEN scan_int(s)
    ELSE scan_uint(s)

name_of(T) ==
    CASE T = "f64" -> "real number"
      [] T = "i8" -> "8-bit integer"
      [] T = "i16" -> "16-bit integer"
      [] T = "i32" -> "32-bit integer"
      [] T = "u8" -> "8-bit unsigned integer"
      [] T = "u16" -> "16-bit unsigned integer"

\* A variant of the conversion step that reports a failed conversion as an
\* error of another kind.
from_str_slice_scanner_map_io(advanced, v, err) ==
    IF is_some(v) THEN Return(Ok([value |-> unwrap(v), cur |-> advanced]))
    ELSE Return(Err(ScanIoError("parse")))

\* from_str_slice_scanner!: s.parse().map(|i| Ok((i, cursor.clone())))
\* .unwrap_or_else(err), on the value v of s.parse()
from_str_slice_scanner_map(advanced, v, err) ==
    IF is_some(v) THEN Return(Ok([value |-> unwrap(v), cur |-> advanced]))
    ELSE err

\* from_str_slice_scanner!: from the value `end` of $scan_fn on; err is what
\* the closure err gives
from_str_slice_scanner_end(T, cursor_, end, err) ==
    IF ~is_some(end) THEN err
    ELSE IF panicked(str_slice_to(cursor_, unwrap(end))) THEN Panic
    ELSE from_str_slice_scanner_map(slice_from(cursor_, unwrap(end)),
                                    parse(T, str_slice_to(cursor_, unwrap(end)).val),
                                    err)

\* A from_str_slice_scanner! whose errors are reported by the advanced
\* cursor.
from_str_slice_scanner_late_err(T, cursor_) ==
    LET tail == tail_str(cursor_)
    IN  IF panicked(tail) THEN Panic
        ELSE LET end == scan_fn(T, tail.val)
             IN  from_str_slice_scanner_end(
                     T, cursor_, end,
                     err_of(expected(slice_from(cursor_, unwrap_or(end, 0)), name_of(T))))

\* from_str_slice_scanner!: the closure `err` captures the cursor the scanner
\* was given, not the advanced cursor that later shadows it.
from_str_slice_scanner(T, cursor_) ==
    IF panicked(tail_str(cursor_)) THEN Panic
    ELSE from_str_slice_scanner_end(T, cursor_, scan_fn(T, tail_str(cursor_).val),
                                    err_of(expected(cursor_, name_of(T))))

ScanTypes == {"bool", "char", "&str", "()"} \cup FloatTypes \cup IntTypes

\* Scanner::scan for the type T
scan(T, cursor_) ==
    CASE T = "bool" -> scan_bool(cursor_)
      [] T = "char" -> scan_char(cursor_)
      [] T = "&str" -> scan_str(cursor_)
      [] T = "()" -> scan_unit(cursor_)
      [] OTHER -> from_str_slice_scanner(T, cursor_)

(***************************************************************************)
(* The inputs of the model.                                                *)
(***************************************************************************)
\* All strings of at most n chars over the alphabet A.
StringsUpTo(A, n) == UNION { [1..k -> A] : k \in 0..n }

\* The chars enumerated exhaustively: a letter, a space, the two newline
\* chars and a two-byte letter.
Alphabet == {"a", " ", "\n", "\r", "U+00E9"}

\* Further inputs, from the tests and the documentation of the source, and
\* inputs with the other classes of chars (digits, punctuation, multi-byte
\* whitespace, punctuation and digits).
Scenarios ==
    { <<"t", "r", "u", "e">>,
      <<"t", "r", "u", "e", "r">>,
      <<"F", "a", "l", "s", "e">>,
      <<"a", "b", "1", "2">>,
      <<"-", "4", "2", "x">>,
      <<"1", ".", "0", "e", "1">>,
      <<"\r", "\n", " ", "x">>,
      <<" ", "\n", "a", "b">>,
      <<" ", "9", "9", "9">>,
      <<"1", "e">>,
      <<"1", "a">>,
      <<"_", "a", "1">>,
      <<"a", "-">>,
      <<"U+00A0", "a">>,
      <<"a", "U+2003">>,
      <<"U+00A7", "a">>,
      <<"U+00C9", "U+0663">> }

Inputs == StringsUpTo(Alphabet, MaxLen) \cup Scenarios

\* The literals given to expect_tok.
Literals == { <<"A">>, <<"\n">>, <<"U+00C9">> }

\* The arguments given to slice_from: small ones and the largest uint.
FromArgs == (0..MaxFrom) \cup {UintModulus - 1}

\* The types whose Scanner is called.
CalledTypes == {"bool", "char", "&str", "()", "f64", "i8", "u8"}

(***************************************************************************)
(* Spec: a caller holds a Cursor made by Cursor::new, calls one operation  *)
(* of ScanCursor or one Scanner on it (call, result), and then goes on     *)
(* (Continue): with the successor when the operation gave one, with the    *)
(* cursor it had otherwise.  A panic stops the program.                    *)
(***************************************************************************)
Idle(c) == [op |-> "idle", self |-> c, arg |-> <<>>]

Init ==
    /\ cursor \in { new(s, tc, sp, cs) :
                      s \in Inputs, tc \in Tokenizers, sp \in WhitespacePolicies,
                      cs \in Comparators }
    /\ call = Idle(cursor)
    /\ result = Return(cursor)

Ready == call.op = "idle"

\* The cursor the caller holds after a call: the successor the result
\* carries, if any.
successor(c, op, r) ==
    IF panicked(r) THEN c
    ELSE CASE op = "pop_ws" -> r.val
           [] op = "slice_from" -> r.val
           [] op = "pop_token" -> IF is_some(r.val) THEN unwrap(r.val).cur ELSE c
           [] op = "expect_tok" -> IF is_ok(r.val) THEN r.val.v ELSE c
           [] op = "expect_eof" -> c
           [] op = "scan" -> IF is_ok(r.val) THEN r.val.v.cur ELSE c

PopWs ==
    /\ Ready
    /\ call' = [op |-> "pop_ws", self |-> cursor, arg |-> <<>>]
    /\ result' = pop_ws(cursor)
    /\ UNCHANGED cursor

PopToken ==
    /\ Ready
    /\ call' = [op |-> "pop_token", self |-> cursor, arg |-> <<>>]
    /\ result' = pop_token(cursor)
    /\ UNCHANGED cursor

ExpectTok ==
    /\ Ready
    /\ \E s \in Literals :
         /\ call' = [op |-> "expect_tok", self |-> cursor, arg |-> s]
         /\ result' = expect_tok(cursor, s)
    /\ UNCHANGED cursor

ExpectEof ==
    /\ Ready
    /\ call' = [op |-> "expect_eof", self |-> cursor, arg |-> <<>>]
    /\ result' = expect_eof(cursor)
    /\ UNCHANGED cursor

SliceFrom ==
    /\ Ready
    /\ \E from \in FromArgs :
         /\ call' = [op |-> "slice_from", self |-> cursor, arg |-> from]
         /\ result' = Return(slice_from(cursor, from))
    /\ UNCHANGED cursor

Scan ==
    /\ Ready
    /\ \E T \in CalledTypes :
         /\ call' = [op |-> "scan", self |-> cursor, arg |-> T]
         /\ result' = scan(T, cursor)
    /\ UNCHANGED cursor

Continue ==
    /\ ~Ready
    /\ ~panicked(result)
    /\ cursor' = successor(cursor, call.op, result)
    /\ call' = Idle(cursor')
    /\ result' = Return(cursor')

Next == PopWs \/ PopToken \/ ExpectTok \/ ExpectEof \/ SliceFrom \/ Scan \/ Continue

Spec == Init /\ [][Next]_vars

(***************************************************************************)
(* SpecOr: ScanError::or applied to every pair of errors.                  *)
(***************************************************************************)
ErrorMessages == {"a", "b"}
IoErrors == {"EndOfFile", "OtherIoError"}

ScanErrors ==
    { OtherScanError(msg, at) : msg \in ErrorMessages, at \in 0..MaxErrOffset }
        \cup { ScanIoError(ioerr) : ioerr \in IoErrors }

\* The cursor of the specifications that call no cursor operation.
NoCursor == new(<<>>, "Explicit", "Exact", "Exact")

InitOr ==
    /\ cursor = NoCursor
    /\ call \in { [op |-> "idle", self |-> e1, arg |-> e2] :
                    e1 \in ScanErrors, e2 \in ScanErrors }
    /\ result = Return(<<>>)

Or ==
    /\ Ready
    /\ call' = [call EXCEPT !.op = "or"]
    /\ result' = Return(ScanError_or(call.self, call.arg))
    /\ UNCHANGED cursor

NextOr == Or

SpecOr == InitOr /\ [][NextOr]_vars

(***************************************************************************)
(* SpecTok: Tokenizer::token_len applied to every text.                    *)
(***************************************************************************)
TokAlphabet == {"a", "1", "_", " ", "-", "U+00E9", "U+0663", "U+2003"}

TokInputs == StringsUpTo(TokAlphabet, MaxTokLen)

InitTok ==
    /\ cursor = NoCursor
    /\ call \in { [op |-> "idle", self |-> tc, arg |-> s] :
                    tc \in Tokenizers, s \in TokInputs }
    /\ result = Return(<<>>)

TokenLen ==
    /\ Ready
    /\ call' = [call EXCEPT !.op = "token_len"]
    /\ result' = Return(Tokenizer_token_len(call.self, call.arg))
    /\ UNCHANGED cursor

NextTok == TokenLen

SpecTok == InitTok /\ [][NextTok]_vars

(***************************************************************************)
(* SpecCmp: CompareStrs::compare_strs applied to the pairs of every three  *)
(* strings.                                                                *)
(***************************************************************************)
CmpAlphabet == {"k", "x", "U+212A"}

CmpInputs == StringsUpTo(CmpAlphabet, MaxCmpLen) \cup { <<"K">>, <<"X", "k">> }

InitCmp ==
    /\ cursor = NoCursor
    /\ call \in { [op |-> "idle", self |-> cs, arg |-> <<a, b>>] :
                    cs \in Comparators, a \in CmpInputs, b \in CmpInputs }
    /\ result = Return(<<>>)

CompareStrs ==
    /\ Ready
    /\ \E c \in CmpInputs :
         LET cs == call.self
             a == call.arg[1]
             b == call.arg[2]
         IN  /\ call' = [op |-> "compare_strs", self |-> cs, arg |-> <<a, b, c>>]
             /\ result' = Return([aa |-> CompareStrs_compare_strs(cs, a, a),
                                  ab |-> CompareStrs_compare_strs(cs, a, b),
                                  ba |-> CompareStrs_compare_strs(cs, b, a),
                                  bc |-> CompareStrs_compare_strs(cs, b, c),
                                  ac |-> CompareStrs_compare_strs(cs, a, c)])
    /\ UNCHANGED cursor

NextCmp == CompareStrs

SpecCmp == InitCmp /\ [][NextCmp]_vars

(***************************************************************************)
(* The properties.  In a state whose call.op names an operation, call.self *)
(* is the position p it was called on, call.arg its argument and result    *)
(* what it gave.                                                           *)
(***************************************************************************)

\* C1: a pop_token at position p that returns follows a fixed order.  With q
\* the position p advanced past strip_len of p's tail: if the whitespace
\* policy's token_len on q's tail is present, the token is the text the
\* policy emits and the successor is q advanced by the policy's length;
\* else if the tokenizer's token_len is present, the token is that many
\* bytes of q's tail and the successor is q advanced by them; else if input
\* remains, the token is exactly one code point; else the result is none.
C1_PopTokenOrder ==
    (call.op = "pop_token" /\ ~panicked(result)) =>
        LET p == call.self
            q == [p EXCEPT !.offset = p.offset + strip_len(p.sp, tail_str(p).val)]
            tail == tail_str(q).val
            w == Whitespace_token_len(p.sp, tail).val
            n == Tokenizer_token_len(p.tc, tail)
        IN  IF is_some(w)
            THEN result.val =
                   Some([tok |-> unwrap(w).tok,
                         cur |-> [q EXCEPT !.offset = q.offset + unwrap(w).end]])
            ELSE IF is_some(n)
            THEN result.val =
                   Some([tok |-> slice_to(tail, unwrap(n)).val,
                         cur |-> [q EXCEPT !.offset = q.offset + unwrap(n)]])
            ELSE IF tail # <<>>
            THEN result.val =
                   Some([tok |-> <<Head(tail)>>,
                         cur |-> [q EXCEPT !.offset = q.offset + len_utf8(Head(tail))]])
            ELSE result.val = None

\* pop_token on " \nab" with the rest-of-input tokenizer under
\* ExplicitNewline: the space is skipped and "\n" comes first.
C1_Witness ==
    /\ call.op = "pop_token"
    /\ call.self = new(<<" ", "\n", "a", "b">>, "Explicit", "ExplicitNewline", "Exact")
    /\ result = Return(Some([tok |-> <<"\n">>, cur |-> [call.self EXCEPT !.offset = 2]]))

\* C2: in every position the caller reaches by pop_ws, pop_token,
\* expect_tok, slice_from and scanner calls, 0 <= offset <= byte length of
\* the input and the offset sits on a code-point boundary.
C2_OffsetOnBoundary ==
    /\ 0 <= cursor.offset
    /\ cursor.offset <= len(cursor.slice)
    /\ is_char_boundary(cursor.slice, cursor.offset)

\* C3: pop_ws is idempotent: where pop_ws(p) returns a position,
\* pop_ws of that position returns the same position.
C3_PopWsIdempotent ==
    (call.op = "pop_ws" /\ ~panicked(result)) =>
        pop_ws(result.val) = Return(result.val)

\* pop_ws under ExplicitNewline skips whitespace and stops before a newline.
C3_Witness ==
    /\ call.op = "pop_ws"
    /\ call.self.sp = "ExplicitNewline"
    /\ ~panicked(result)
    /\ result.val.offset > call.self.offset
    /\ ~is_empty(result.val)
    /\ is_newline(Head(tail_str(result.val).val))

\* C4: slice_from(n) returns a position whose offset is
\* min(len(input), offset + n): never smaller than the original offset and
\* never past the end of the input.
C4_SliceFromClamped ==
    call.op = "slice_from" =>
        LET p == call.self
            n == call.arg
        IN  /\ result.val.offset = Min(len(p.slice), p.offset + n)
            /\ result.val.offset >= p.offset
            /\ result.val.offset <= len(p.slice)

\* C5 as stated: when expect_tok(s) succeeds with successor p', the slice of
\* the input between p and p' compares equal to s under the comparator.
C5_ConsumedSliceEqualsLiteral ==
    (call.op = "expect_tok" /\ ~panicked(result) /\ is_ok(result.val)) =>
        LET p == call.self
            consumed_slice == str_slice_to_cur(p, result.val.v)
        IN  /\ ~panicked(consumed_slice)
            /\ compare_strs(p, call.arg, consumed_slice.val)

\* C5, amended: when expect_tok(s) succeeds with successor p', then with q
\* the position after the whitespace pop_ws skips: if the whitespace policy
\* emits a token at q, the text it emits compares equal to s; otherwise the
\* slice of the input between q and p' compares equal to s.
C5_TokenSliceEqualsLiteral ==
    (call.op = "expect_tok" /\ ~panicked(result) /\ is_ok(result.val)) =>
        LET p == call.self
            q == pop_ws(p).val
            w == Whitespace_token_len(p.sp, tail_str(q).val).val
            token_slice == str_slice_to_cur(q, result.val.v)
        IN  IF is_some(w)
            THEN compare_strs(p, call.arg, unwrap(w).tok)
            ELSE /\ ~panicked(token_slice)
                 /\ compare_strs(p, call.arg, token_slice.val)

\* expect_tok("A") succeeds on " a" when whitespace is ignored and case is
\* not compared.
C5_Witness ==
    /\ call.op = "expect_tok"
    /\ call.arg = <<"A">>
    /\ call.self.slice = <<" ", "a">>
    /\ call.self.offset = 0
    /\ call.self.sp = "Ignore"
    /\ call.self.cs = "AsciiCaseInsensitive"
    /\ result = Return(Ok([call.self EXCEPT !.offset = 2]))

\* C6: an expect_tok(lit) at p that returns succeeds exactly when
\* pop_token(p) yields a token t for which the comparator says lit equals t,
\* and then it returns exactly pop_token's successor; otherwise (no token,
\* or a token that does not compare equal) it fails with an OtherScanError.
C6_ExpectTokIffTokenEqual ==
    (call.op = "expect_tok" /\ ~panicked(result)) =>
        LET p == call.self
            t == pop_token(p).val
        IN  IF is_some(t) /\ compare_strs(p, call.arg, unwrap(t).tok)
            THEN result.val = Ok(unwrap(t).cur)
            ELSE /\ is_err(result.val)
                 /\ result.val.e.kind = "OtherScanError"

\* expect_tok of a capital E with acute succeeds on the small letter when
\* case is not compared.
C6_Witness ==
    /\ call.op = "expect_tok"
    /\ call.arg = <<"U+00C9">>
    /\ call.self.cs = "CaseInsensitive"
    /\ ~panicked(result)
    /\ is_ok(result.val)
    /\ result.val.v.offset = call.self.offset + 2
    /\ unwrap(pop_token(call.self).val).tok = <<"U+00E9">>

\* C7: every OtherScanError that expect_tok, expect_eof or a scanner called
\* on position p returns carries exactly p's offset.
C7_ErrorCarriesCallerOffset ==
    (/\ call.op \in {"expect_tok", "expect_eof", "scan"}
     /\ ~panicked(result)
     /\ is_err(result.val)
     /\ result.val.e.kind = "OtherScanError") =>
        result.val.e.offset = call.self.offset

\* The i8 scanner at offset 1 of " 999": the mini-lexer takes "999", the
\* parse fails, and the error carries 1.
C7_Witness ==
    /\ call.op = "scan"
    /\ call.arg = "i8"
    /\ call.self.slice = <<" ", "9", "9", "9">>
    /\ call.self.offset = 1
    /\ ~panicked(result)
    /\ is_err(result.val)
    /\ result.val.e.offset = 1

\* C8: ScanError::or of e1 and e2 gives a ScanIoError whenever either
\* argument is one (the first if both are); otherwise the OtherScanError
\* with the strictly larger offset and, on equal offsets, the second
\* argument; the result is always one of the two arguments, unchanged.
C8_OrKeepsIoThenDeeper ==
    call.op = "or" =>
        LET e1 == call.self
            e2 == call.arg
            r == result.val
        IN  /\ r \in {e1, e2}
            /\ e1.kind = "ScanIoError" => r = e1
            /\ (e1.kind = "OtherScanError" /\ e2.kind = "ScanIoError") => r = e2
            /\ (e1.kind = "OtherScanError" /\ e2.kind = "OtherScanError") =>
                 r = (IF e1.offset > e2.offset THEN e1 ELSE e2)

\* ("a", 3) or ("b", 5) gives ("b", 5).
C8_Witness ==
    /\ call.op = "or"
    /\ call.self = OtherScanError("a", 3)
    /\ call.arg = OtherScanError("b", 5)
    /\ result = Return(OtherScanError("b", 5))

\* The chars that start a token of the tokenizer tc.
StartsToken(tc, c) ==
    CASE tc = "WordsAndInts" -> is_alphabetic(c) \/ is_digit(c)
      [] tc = "IdentsAndInts" -> c = "_" \/ is_XID_start(c) \/ is_digit(c)
      [] tc = "SpaceDelimited" -> ~is_whitespace(c)
      [] tc = "Explicit" -> TRUE

\* The chars that continue a token of the tokenizer tc that c0 starts.
ContinuesToken(tc, c0, c) ==
    CASE tc = "WordsAndInts" -> IF is_alphabetic(c0) THEN is_alphabetic(c) ELSE is_digit(c)
      [] tc = "IdentsAndInts" -> IF c0 = "_" \/ is_XID_start(c0) THEN is_XID_continue(c)
                                 ELSE is_digit(c)
      [] tc = "SpaceDelimited" -> ~is_whitespace(c)
      [] tc = "Explicit" -> TRUE

\* C9: for each tokenizer and every text s, token_len(s) is none exactly
\* when s is empty or its first code point does not start a token of the
\* tokenizer; otherwise it is the byte length L of the maximal run of the
\* tokenizer's class, with 0 < L <= len(s) and L on a code-point boundary.
C9_TokenLenMaximalRun ==
    call.op = "token_len" =>
        LET tc == call.self
            s == call.arg
            r == result.val
        IN  IF s = <<>> \/ ~StartsToken(tc, Head(s))
            THEN r = None
            ELSE /\ is_some(r)
                 /\ 0 < unwrap(r)
                 /\ unwrap(r) <= len(s)
                 /\ is_char_boundary(s, unwrap(r))
                 /\ LET k == chars_before(s, unwrap(r))
                    IN  /\ \A i \in 1..k : ContinuesToken(tc, s[1], s[i])
                        /\ k = Len(s) \/ ~ContinuesToken(tc, s[1], s[k + 1])

\* WordsAndInts on a two-byte letter followed by a digit: the word is the
\* two bytes of the letter.
C9_Witness ==
    /\ call.op = "token_len"
    /\ call.self = "WordsAndInts"
    /\ call.arg = <<"U+00E9", "1", " ">>
    /\ result = Return(Some(2))

\* C10: each comparator is an equivalence relation: compare(a, a) is true,
\* compare(a, b) = compare(b, a), and compare(a, b) and compare(b, c) imply
\* compare(a, c).
C10_ComparatorsAreEquivalences ==
    call.op = "compare_strs" =>
        LET r == result.val
        IN  /\ r.aa
            /\ r.ab = r.ba
            /\ (r.ab /\ r.bc) => r.ac

\* C11: CaseInsensitive compare(a, b) is true exactly when a and b have the
\* same number of code points and, position by position, the lowercase
\* forms of their code points are equal.
C11_CaseInsensitiveByCodePoints ==
    (call.op = "compare_strs" /\ call.self = "CaseInsensitive") =>
        LET a == call.arg[1]
            b == call.arg[2]
        IN  result.val.ab =
                (/\ Len(a) = Len(b)
                 /\ \A i \in 1..Len(a) : to_lowercase(a[i]) = to_lowercase(b[i]))

(***************************************************************************)
(* SpecLex: the mini-lexers and the number scanners applied to a cursor on *)
(* every text, at its start or one char in.  Whitespace is ignored by the  *)
(* policy, so that a scanner that skipped it would show.                   *)
(***************************************************************************)
LexAlphabet == {"1", "-", ".", "e", "+", "x", " "}

\* Literals of the tests (test_floats, test_sized_ints, test_int) and the
\* least and greatest values of each integer type, with their neighbours.
LexScenarios ==
    { <<"1", ".", "1", "e", "1">>,
      <<"1", "e", "-", "1">>,
      <<"-", "1", ".", "1">>,
      <<"1", ".", "1", "x">>,
      <<"1", "e", "1", "x">>,
      <<"1", ".", "e", "x">>,
      <<"1", "e", "+", "x">>,
      <<"1", ".", "1", "e">>,
      <<"1", ".", "0", "e", "1">>,
      <<"1", "E", "1">>,
      <<"1", "e", "+", "1">>,
      <<"1", ".", "5", "e", "-", "1", "x">>,
      <<"-", "4", "2", "x">>,
      <<"1", "_", "2", "3", "4">>,
      <<"0", ".", "0">>,
      <<"-", "0">>,
      <<"1", ".", "0", "0">>,
      <<"1", "2", "7">>,
      <<"1", "2", "8">>,
      <<"-", "1", "2", "8">>,
      <<"-", "1", "2", "9">>,
      <<"0", "1", "2", "7">>,
      <<"2", "5", "5">>,
      <<"2", "5", "6">>,
      <<"3", "2", "7", "6", "7">>,
      <<"3", "2", "7", "6", "8">>,
      <<"-", "3", "2", "7", "6", "8">>,
      <<"-", "3", "2", "7", "6", "9">>,
      <<"6", "5", "5", "3", "5">>,
      <<"6", "5", "5", "3", "6">>,
      <<"2", "1", "4", "7", "4", "8", "3", "6", "4", "7">>,
      <<"2", "1", "4", "7", "4", "8", "3", "6", "4", "8">>,
      <<"-", "2", "1", "4", "7", "4", "8", "3", "6", "4", "8">>,
      <<"-", "2", "1", "4", "7", "4", "8", "3", "6", "4", "9">> }

LexInputs == StringsUpTo(LexAlphabet, MaxLexLen) \cup LexScenarios

LexTypes == FloatTypes \cup IntTypes

InitLex ==
    /\ cursor \in { new(s, tc, "Ignore", "Exact") : s \in LexInputs, tc \in Tokenizers }
    /\ call = Idle(cursor)
    /\ result = Return(cursor)

SkipOne ==
    /\ Ready
    /\ cursor.offset = 0
    /\ ~is_empty(cursor)
    /\ cursor' = slice_from(cursor, 1)
    /\ call' = Idle(cursor')
    /\ result' = Return(cursor')

ScanFloat ==
    /\ Ready
    /\ call' = [op |-> "scan_float", self |-> cursor, arg |-> <<>>]
    /\ result' = Return(scan_float(tail_str(cursor).val))
    /\ UNCHANGED cursor

ScanInt ==
    /\ Ready
    /\ call' = [op |-> "scan_int", self |-> cursor, arg |-> <<>>]
    /\ result' = Return(scan_int(tail_str(cursor).val))
    /\ UNCHANGED cursor

ScanUint ==
    /\ Ready
    /\ call' = [op |-> "scan_uint", self |-> cursor, arg |-> <<>>]
    /\ result' = Return(scan_uint(tail_str(cursor).val))
    /\ UNCHANGED cursor

ScanNumber ==
    /\ Ready
    /\ \E T \in LexTypes :
         /\ call' = [op |-> "scan", self |-> cursor, arg |-> T]
         /\ result' = scan(T, cursor)
    /\ UNCHANGED cursor

NextLex == SkipOne \/ ScanFloat \/ ScanInt \/ ScanUint \/ ScanNumber

SpecLex == InitLex /\ [][NextLex]_vars

\* s is one or more ASCII digits.
IsDigits(s) == s # <<>> /\ \A i \in 1..Len(s) : s[i] \in AsciiDigitSet

\* s is an optional '-' and digits, with an optional '.' and digits.
IsMantissa(s) ==
    LET body == IF s # <<>> /\ Head(s) = "-" THEN Tail(s) ELSE s
    IN  \E w \in 1..Len(body) :
          /\ IsDigits(SubSeq(body, 1, w))
          /\ \/ w = Len(body)
             \/ body[w + 1] = "." /\ IsDigits(SubSeq(body, w + 2, Len(body)))

\* s is 'e' or 'E', an optional sign, and digits.
IsExponent(s) ==
    /\ s # <<>>
    /\ Head(s) \in {"e", "E"}
    /\ LET y == Tail(s)
       IN  IsDigits(IF y # <<>> /\ Head(y) \in {"+", "-"} THEN Tail(y) ELSE y)

\* s is a well-formed decimal float literal.
WellFormedFloat(s) ==
    \E m \in 1..Len(s) :
      /\ IsMantissa(SubSeq(s, 1, m))
      /\ m = Len(s) \/ IsExponent(SubSeq(s, m + 1, Len(s)))

\* s begins with 'e' or 'E' that no complete exponent follows.
DanglingExponent(s) ==
    /\ s # <<>>
    /\ Head(s) \in {"e", "E"}
    /\ \A n \in 1..Len(s) : ~IsExponent(SubSeq(s, 1, n))

\* C12: when the text is the digits (and optional fraction) of a float
\* literal followed by 'e' or 'E' that no complete exponent follows, the
\* float mini-lexer does not fail and its matched length stops before the
\* 'e': the matched slice is the mantissa only.
C12_FloatStopsBeforeDanglingE ==
    \A m \in 1..Len(call.self.slice) :
      LET tail == tail_str(call.self).val
      IN  (/\ call.op = "scan_float"
           /\ m < Len(tail)
           /\ IsMantissa(SubSeq(tail, 1, m))
           /\ DanglingExponent(SubSeq(tail, m + 1, Len(tail)))) =>
              result.val = Some(m)

\* The chars that may not follow the float literal of C13.
FloatFollowers == AsciiDigitSet \cup {".", "e", "E", "+", "-"}

\* C13: for every well-formed float literal L at the cursor that is followed
\* by the end of input or by a char that is no digit, '.', 'e', 'E', '+' or
\* '-', the float mini-lexer returns len(L) and the float decoder succeeds
\* with its successor at offset + len(L); on empty input the decoder fails.
C13_FloatLiteralConsumedWhole ==
    LET tail == tail_str(call.self).val
    IN  /\ \A n \in 1..Len(tail) :
             (/\ WellFormedFloat(SubSeq(tail, 1, n))
              /\ n = Len(tail) \/ tail[n + 1] \notin FloatFollowers) =>
                 /\ call.op = "scan_float" =>
                      result.val = Some(len(SubSeq(tail, 1, n)))
                 /\ (call.op = "scan" /\ call.arg \in FloatTypes) =>
                      /\ is_ok(result.val)
                      /\ result.val.v.cur.offset =
                             call.self.offset + len(SubSeq(tail, 1, n))
        /\ (call.op = "scan" /\ call.arg \in FloatTypes /\ tail = <<>>) =>
               is_err(result.val)

C13_Witness ==
    /\ call.op = "scan"
    /\ call.arg = "f64"
    /\ call.self.offset = 0
    /\ call.self.slice = <<"1", ".", "0", "e", "1">>
    /\ is_ok(result.val)
    /\ result.val.v.cur.offset = 5

\* The number of ASCII digits s begins with.
LeadingDigits(s) ==
    CHOOSE k \in 0..Len(s) :
      /\ \A i \in 1..k : s[i] \in AsciiDigitSet
      /\ k = Len(s) \/ s[k + 1] \notin AsciiDigitSet

\* The length of the longest prefix of s that is an optional '-' (when
\* signed) and one or more ASCII digits; 0 when there is none.
IntPrefixLen(signed, s) ==
    LET neg == signed /\ s # <<>> /\ Head(s) = "-"
        digits == LeadingDigits(IF neg THEN Tail(s) ELSE s)
    IN  IF digits = 0 THEN 0 ELSE digits + (IF neg THEN 1 ELSE 0)

\* C14: an integer decoder applied at p skips no whitespace and matches the
\* longest prefix of the tail that is an optional '-' (signed types only)
\* and one or more ASCII digits: the mini-lexers return its length, a
\* successful decoder leaves the successor at p.offset plus that length, and
\* the decoder fails when there is no such prefix.
C14_IntLongestPrefix ==
    LET tail == tail_str(call.self).val
    IN  /\ call.op = "scan_int" =>
             result.val = (IF IntPrefixLen(TRUE, tail) = 0 THEN None
                           ELSE Some(IntPrefixLen(TRUE, tail)))
        /\ call.op = "scan_uint" =>
             result.val = (IF IntPrefixLen(FALSE, tail) = 0 THEN None
                           ELSE Some(IntPrefixLen(FALSE, tail)))
        /\ (call.op = "scan" /\ call.arg \in IntTypes) =>
             /\ IntPrefixLen(is_signed(call.arg), tail) = 0 => is_err(result.val)
             /\ is_ok(result.val) =>
                  result.val.v.cur.offset =
                      call.self.offset + IntPrefixLen(is_signed(call.arg), tail)
             /\ IntPrefixLen(is_signed(call.arg), tail) \in 1..2 => is_ok(result.val)

C14_Witness ==
    /\ call.op = "scan"
    /\ call.arg = "i8"
    /\ call.self.offset = 0
    /\ call.self.slice = <<"-", "4", "2", "x">>
    /\ is_ok(result.val)
    /\ result.val.v.value = -42
    /\ result.val.v.cur.offset = 3

\* The decimal digits of the greatest value of T and of the magnitude of its
\* least value.
MaxDigits(T) ==
    CASE T = "i8" -> <<"1", "2", "7">>
      [] T = "i16" -> <<"3", "2", "7", "6", "7">>
      [] T = "i32" -> <<"2", "1", "4", "7", "4", "8", "3", "6", "4", "7">>
      [] T = "u8" -> <<"2", "5", "5">>
      [] T = "u16" -> <<"6", "5", "5", "3", "5">>

MinMagnitudeDigits(T) ==
    CASE T = "i8" -> <<"1", "2", "8">>
      [] T = "i16" -> <<"3", "2", "7", "6", "8">>
      [] T = "i32" -> <<"2", "1", "4", "7", "4", "8", "3", "6", "4", "8">>
      [] T \in {"u8", "u16"} -> <<>>

\* The digits d without their leading zeros.
StripZeros(d) == SubSeq(d, 1 + take_while_count(d, {"0"}), Len(d))

\* a <= b as numbers, for digit strings without leading zeros.
DigitsLE(a, b) ==
    \/ Len(a) < Len(b)
    \/ /\ Len(a) = Len(b)
       /\ \/ a = b
          \/ \E i \in 1..Len(a) :
               /\ DigitValueOf[a[i]] < DigitValueOf[b[i]]
               /\ \A j \in 1..(i - 1) : a[j] = b[j]

\* The literal lit (an optional '-' and digits) denotes a value of T.
InRange(T, lit) ==
    IF Head(lit) = "-" THEN DigitsLE(StripZeros(Tail(lit)), MinMagnitudeDigits(T))
    ELSE DigitsLE(StripZeros(lit), MaxDigits(T))

RECURSIVE SignedValue(_, _, _)
\* The value of the digits d after acc, counted down when sign = -1.
SignedValue(d, acc, sign) ==
    IF d = <<>> THEN acc
    ELSE SignedValue(Tail(d), acc * 10 + sign * DigitValueOf[Head(d)], sign)

\* The value the in-range literal lit denotes.
ValueOf(lit) ==
    IF Head(lit) = "-" THEN SignedValue(Tail(lit), 0, -1) ELSE SignedValue(lit, 0, 1)

\* C15: for each fixed-width integer type, the decoder succeeds exactly when
\* the literal the mini-lexer matched denotes a value within [min, max] of
\* the type, and then returns that value; one below min and one above max
\* fail, min and max decode.
C15_IntRangeChecked ==
    (call.op = "scan" /\ call.arg \in IntTypes) =>
        LET tail == tail_str(call.self).val
            n == IntPrefixLen(is_signed(call.arg), tail)
        IN  n > 0 =>
              /\ is_ok(result.val) <=> InRange(call.arg, SubSeq(tail, 1, n))
              /\ is_ok(result.val) =>
                   result.val.v.value = ValueOf(SubSeq(tail, 1, n))

C15_Witness ==
    /\ call.op = "scan"
    /\ call.arg = "i8"
    /\ call.self.offset = 0
    /\ call.self.slice = <<"-", "1", "2", "9">>
    /\ is_err(result.val)

C17_BoolByExpectTok ==
    (call.op = "scan" /\ call.arg = "bool" /\ ~panicked(result)) =>
        LET t == expect_tok(call.self, str_true).val
            f == expect_tok(call.self, str_false).val
            p == pop_token(call.self).val
        IN  /\ IF is_ok(t) THEN result.val = Ok([value |-> TRUE, cur |-> t.v])
               ELSE IF is_ok(f) THEN result.val = Ok([value |-> FALSE, cur |-> f.v])
               ELSE is_err(result.val)
            /\ is_ok(result.val) <=>
                 /\ is_some(p)
                 /\ \/ compare_strs(call.self, str_true, unwrap(p).tok)
                    \/ compare_strs(call.self, str_false, unwrap(p).tok)

C17_Witness ==
    /\ call.op = "scan"
    /\ call.arg = "bool"
    /\ call.self.offset = 0
    /\ call.self.slice = <<"F", "a", "l", "s", "e">>
    /\ call.self.cs = "CaseInsensitive"
    /\ result = Return(Ok([value |-> FALSE, cur |-> slice_from(call.self, 5)]))

\* A longer word that starts with "true" is rejected.
C17_LongerWordRejected ==
    (/\ call.op = "scan"
     /\ call.arg = "bool"
     /\ call.self.offset = 0
     /\ call.self.slice = <<"t", "r", "u", "e", "r">>
     /\ ~panicked(result)) => is_err(result.val)

(***************************************************************************)
(* SpecWs: the whitespace policies applied to every text of whitespace,    *)
(* line terminators and a letter, and pop_token on a cursor with each      *)
(* policy.                                                                 *)
(***************************************************************************)
WsAlphabet == {" ", "\t", "\n", "\r", "a", "U+00A0", "U+2003"}

WsInputs == StringsUpTo(WsAlphabet, MaxWsLen)

InitWs ==
    /\ cursor \in { new(s, "WordsAndInts", sp, "Exact") :
                      s \in WsInputs, sp \in WhitespacePolicies }
    /\ call = Idle(cursor)
    /\ result = Return(cursor)

StripLen ==
    /\ Ready
    /\ call' = [op |-> "strip_len", self |-> cursor, arg |-> <<>>]
    /\ result' = Return(strip_len(cursor.sp, tail_str(cursor).val))
    /\ UNCHANGED cursor

WsTokenLen ==
    /\ Ready
    /\ call' = [op |-> "token_len", self |-> cursor, arg |-> <<>>]
    /\ result' = Whitespace_token_len(cursor.sp, tail_str(cursor).val)
    /\ UNCHANGED cursor

WsPopToken ==
    /\ Ready
    /\ call' = [op |-> "pop_token", self |-> cursor, arg |-> <<>>]
    /\ result' = pop_token(cursor)
    /\ UNCHANGED cursor

NextWs == StripLen \/ WsTokenLen \/ WsPopToken

SpecWs == InitWs /\ [][NextWs]_vars

\* C18: under the Exact whitespace policy strip_len is 0, and token_len on a
\* tail that starts with a whitespace code point returns that code point as
\* the token with its byte width as the length, except that a leading
\* "\r\n" is one token of two bytes; on a tail that is empty or starts with
\* another char it returns none.
C18_ExactTokenPerCodePoint ==
    call.self.sp = "Exact" =>
        LET tail == tail_str(call.self).val
        IN  /\ call.op = "strip_len" => result = Return(0)
            /\ call.op = "token_len" =>
                 result = Return(
                     IF tail = <<>> \/ ~is_whitespace(Head(tail)) THEN None
                     ELSE IF Len(tail) >= 2 /\ SubSeq(tail, 1, 2) = <<"\r", "\n">>
                          THEN Some([end |-> 2, tok |-> <<"\r", "\n">>])
                     ELSE Some([end |-> len_utf8(Head(tail)), tok |-> <<Head(tail)>>]))

\* The number of chars of the leading run of whitespace other than '\r' and
\* '\n' in s.
BlankRun(s) ==
    CHOOSE k \in 0..Len(s) :
      /\ \A i \in 1..k : is_whitespace(s[i]) /\ s[i] \notin {"\r", "\n"}
      /\ k = Len(s) \/ ~is_whitespace(s[k + 1]) \/ s[k + 1] \in {"\r", "\n"}

\* The byte length of the line terminator s begins with; 0 when it begins
\* with none.
TerminatorLen(s) ==
    IF s = <<>> THEN 0
    ELSE IF Head(s) = "\r" THEN (IF Len(s) >= 2 /\ s[2] = "\n" THEN 2 ELSE 1)
    ELSE IF Head(s) = "\n" THEN 1
    ELSE 0

\* C19: under the ExplicitNewline whitespace policy strip_len covers the
\* leading run of whitespace other than '\r' and '\n' and no more, token_len
\* on a tail that begins with "\r\n", "\r" or "\n" returns the token "\n"
\* with length 2, 1 and 1 and none on any other tail, and pop_token over
\* such whitespace followed by a line terminator returns "\n" with the
\* successor just past the whole terminator.
C19_NewlineNeverSkipped ==
    call.self.sp = "ExplicitNewline" =>
        LET tail == tail_str(call.self).val
            blank == len(SubSeq(tail, 1, BlankRun(tail)))
            rest == SubSeq(tail, BlankRun(tail) + 1, Len(tail))
        IN  /\ call.op = "strip_len" => result = Return(blank)
            /\ call.op = "token_len" =>
                 result = Return(IF TerminatorLen(tail) = 0 THEN None
                                 ELSE Some([end |-> TerminatorLen(tail), tok |-> <<"\n">>]))
            /\ (call.op = "pop_token" /\ TerminatorLen(rest) > 0) =>
                 result = Return(Some(
                     [tok |-> <<"\n">>,
                      cur |-> [call.self EXCEPT
                                 !.offset = call.self.offset + blank + TerminatorLen(rest)]]))

C19_Witness ==
    /\ call.op = "pop_token"
    /\ call.self.sp = "ExplicitNewline"
    /\ call.self.offset = 0
    /\ call.self.slice = <<" ", "\r", "\n">>
    /\ result = Return(Some([tok |-> <<"\n">>, cur |-> slice_from(call.self, 3)]))

\* The cursors a and b are on the same input with the same three policies.
SameButOffset(a, b) ==
    /\ a.slice = b.slice
    /\ a.tc = b.tc
    /\ a.sp = b.sp
    /\ a.cs = b.cs

\* C20: every operation on a cursor (pop_ws, pop_token, expect_tok,
\* expect_eof, slice_from and every scanner), whether it succeeds or fails,
\* leaves the cursor it was applied to unchanged, so that the caller can go
\* on from it after a failure, and a successor it returns differs from that
\* cursor in its offset only.
C20_CursorImmutable ==
    call.op # "idle" =>
        /\ cursor = call.self
        /\ SameButOffset(successor(call.self, call.op, result), call.self)

C20_Witness ==
    /\ call.op = "expect_tok"
    /\ call.self.offset > 0
    /\ call.self.cs = "CaseInsensitive"
    /\ ~panicked(result)
    /\ is_ok(result.val)
    /\ result.val.v.offset > call.self.offset
    /\ cursor = call.self

\* A call that failed after progress: the caller still holds the cursor it
\* applied the operation to.
C20_WitnessFailure ==
    /\ call.op = "scan"
    /\ call.self.offset > 0
    /\ ~panicked(result)
    /\ is_err(result.val)
    /\ cursor = call.self

\* C21: for every tokenizer, whitespace policy and cursor p, pop_token(p)
\* returns none exactly when pop_ws(p).is_empty(), and expect_eof(p) succeeds
\* exactly then; hence is_empty(p) implies that pop_token(p) returns none.
C21_NoTokenIffEmptyAfterWs ==
    LET w == pop_ws(call.self)
        exhausted == ~panicked(w) /\ is_empty(w.val)
    IN  /\ call.op = "pop_token" =>
             /\ (result = Return(None)) <=> exhausted
             /\ is_empty(call.self) => result = Return(None)
        /\ call.op = "expect_eof" =>
             (~panicked(result) /\ is_ok(result.val)) <=> exhausted

\* The converse fails: under Ignore a tail of whitespace only is not empty,
\* and pop_token returns none.
C21_Witness ==
    /\ call.op = "pop_token"
    /\ call.self.sp = "Ignore"
    /\ ~is_empty(call.self)
    /\ result = Return(None)

(***************************************************************************)
(* SpecPop: a caller that tokenizes: it makes a cursor on a text (and may  *)
(* start one char in), calls pop_token, and calls it again on each         *)
(* successor it is given, until it is given none.  call.arg keeps the      *)
(* offset it started from and the number of calls made.                    *)
(***************************************************************************)
PopInputs == Inputs \cup WsInputs

\* Before the caller has a text.
InitPop ==
    /\ cursor = new(<<>>, "WordsAndInts", "Ignore", "Exact")
    /\ call = [op |-> "idle", self |-> cursor, arg |-> [start |-> 0, calls |-> 0]]
    /\ result = Return(cursor)

\* Cursor::new on a text, and slice_from(k) to start from.
New ==
    /\ call.op = "idle"
    /\ \E s \in PopInputs, tc \in Tokenizers, sp \in WhitespacePolicies, k \in {0, 1} :
         /\ is_char_boundary(s, k)
         /\ cursor' = slice_from(new(s, tc, sp, "Exact"), k)
    /\ call' = [op |-> "new", self |-> cursor',
                arg |-> [start |-> cursor'.offset, calls |-> 0]]
    /\ result' = Return(cursor')

\* One call of pop_token on the cursor `from`.
PopFrom(from) ==
    /\ cursor' = from
    /\ call' = [op |-> "pop_token", self |-> from,
                arg |-> [call.arg EXCEPT !.calls = @ + 1]]
    /\ result' = pop_token(from)

PopFirst ==
    /\ call.op = "new"
    /\ PopFrom(cursor)

PopAgain ==
    /\ call.op = "pop_token"
    /\ ~panicked(result)
    /\ is_some(result.val)
    /\ PopFrom(unwrap(result.val).cur)

NextPop == New \/ PopFirst \/ PopAgain

\* The caller's loop: after a new cursor and after every token it calls
\* pop_token on the cursor it holds, whatever that call returns (to panic is
\* one of the outcomes).
GoesOn ==
    /\ \/ call.op = "new"
       \/ call.op = "pop_token" /\ ~panicked(result) /\ is_some(result.val)
    /\ cursor' = (IF call.op = "new" THEN cursor ELSE unwrap(result.val).cur)
    /\ call' = [op |-> "pop_token", self |-> cursor',
                arg |-> [call.arg EXCEPT !.calls = @ + 1]]
    /\ (result' = Panic \/ result' # Panic)

\* The loop goes on while it is given tokens; whether the caller ever makes a
\* cursor is left open.
SpecPop == InitPop /\ [][NextPop]_vars /\ WF_vars(GoesOn)

\* C22: with every tokenizer and whitespace policy, a caller that starts from
\* a cursor and goes on from each successor pop_token returns is eventually
\* given none.
C22_PopTokenReachesNone ==
    (call.op = "new") ~> (call.op = "pop_token" /\ result = Return(None))

\* Every pop_token that returns a token returns a successor with a strictly
\* greater offset, and the calls that returned a token are at most as many
\* as the bytes between the offset the caller started from and the
\* successor's offset.
C22_StrictProgress ==
    (call.op = "pop_token" /\ ~panicked(result) /\ is_some(result.val)) =>
        /\ unwrap(result.val).cur.offset > call.self.offset
        /\ call.arg.calls <= unwrap(result.val).cur.offset - call.arg.start
        /\ unwrap(result.val).cur.offset <= len(call.self.slice)

\* Where the caller is not given none, it is because pop_token panicked.
C22_EndsInNoneOrPanic ==
    (call.op = "new") ~>
        (call.op = "pop_token" /\ (panicked(result) \/ result = Return(None)))

====
